---- MODULE Spec2Model ----
(***************************************************************************)
(* Model of the Dainify preview converter (src/unnamed/part_001): the     *)
(* /create-preview handler, the pLimit concurrency limiter, the per-      *)
(* variant pipeline (download or playlist resolution, transcode, upload,  *)
(* cleanup), the result callback, and the pure playlist helpers           *)
(* pickMedianVariant and absolutizePlaylist.                              *)
(*                                                                         *)
(* One action is one JavaScript job: either an I/O completion (a          *)
(* macrotask) or a promise reaction (a microtask).  Node drains every     *)
(* pending microtask before it delivers the next I/O completion, so the   *)
(* I/O actions are guarded by ~MicrotaskPending.                          *)
(***************************************************************************)
EXTENDS Integers, Sequences, FiniteSets, TLC

(* ------------------------------ bounds -------------------------------- *)

\* longest sunoVariants list of a request with variants of every kind
MaxVariants == 2

\* longest sunoVariants list of a request whose variants are direct-audio
\* or URL-less only
MaxDirectVariants == 4

\* longest sunoVariants list of a request whose file-system calls may fail
MaxCleanupVariants == 1

\* longest sunoVariants list of a direct-audio request followed under fairness
MaxLimiterVariants == 3

\* most segment files one transcode leaves in the working directory
MaxSegments == 3

\* most renditions in a master playlist
MaxRenditions == 4

\* most lines in a media playlist
MaxLines == 4

(* ------------------------- program constants -------------------------- *)

\* config.maxConcurrent: Number(process.env.MAX_CONCURRENT || 2)
DefaultMaxConcurrent == 2

\* hlsToTrimmedHls: if (attempts >= 2) throw e
MaxHlsAttempts == 2

\* uploadFilesToR2: const limit = pLimit(4)
UploadConcurrency == 4

(* ------------------------------ values -------------------------------- *)

\* JavaScript null / undefined in a URL field
Null == "null"

\* a raw variant that is itself null (JSON null inside sunoVariants)
RawNull == [isNull |-> TRUE, audioUrl |-> Null, streamUrl |-> Null,
            imageUrl |-> Null, hasIndex |-> FALSE, index |-> 0,
            hasId |-> FALSE, id |-> 0]

\* Raw variant records.  audioUrl / streamUrl / imageUrl stand for the first
\* truthy value among the alternate keys normalizeVariant tries for that
\* field; hasIndex / hasId say whether raw.index / raw.id is a number.
RawRecords ==
  [isNull : {FALSE}, audioUrl : {Null, "mp3"}, streamUrl : {Null, "m3u8"},
   imageUrl : {Null}, hasIndex : {FALSE}, index : {0},
   hasId : {FALSE}, id : {0}]

RawVariants == RawRecords \cup {RawNull}

\* raw variants with a direct-audio URL or no URL at all
DirectRecords == {r \in RawRecords : r.streamUrl = Null}

RECURSIVE SeqsUpTo(_, _)
SeqsUpTo(S, n) ==
  IF n = 0 THEN {<< >>}
  ELSE LET shorter == SeqsUpTo(S, n - 1)
       IN  shorter \cup {Append(s, x) : s \in {t \in shorter : Len(t) = n - 1}, x \in S}

\* req.body: internalTaskId and customerId truthy or not, sunoVariants an
\* array or not.  Malformed bodies carry short lists only.
Requests ==
  [internalTaskId : {TRUE}, customerId : {TRUE}, isArray : {TRUE},
   sunoVariants : SeqsUpTo(RawVariants, MaxVariants)]
  \cup
  {r \in [internalTaskId : BOOLEAN, customerId : BOOLEAN, isArray : BOOLEAN,
          sunoVariants : SeqsUpTo(RawRecords, 1)] :
     ~(r.internalTaskId /\ r.customerId /\ r.isArray)}

\* well-formed bodies whose variants are direct-audio or URL-less
DirectRequests ==
  [internalTaskId : {TRUE}, customerId : {TRUE}, isArray : {TRUE},
   sunoVariants : SeqsUpTo(DirectRecords, MaxDirectVariants)]

\* bandwidths of the renditions of a master playlist
Bandwidths == {100, 200, 300, 400}

\* A playlist line.  kind: "tag" (any other line that starts with #),
\* "key" (#EXT-X-KEY), "map" (#EXT-X-MAP), "endlist" (#EXT-X-ENDLIST),
\* "indentedEndlist" (the tag after leading white space), "blank", "uri"
\* (anything else).  uri: the URI the line carries: "rel", "abs", "bad" (one
\* new URL() throws on) or "none".
Line(kind, uri) == [kind |-> kind, uri |-> uri]

InputLines ==
  {Line("tag", "none"), Line("endlist", "none"), Line("indentedEndlist", "none"),
   Line("blank", "none"), Line("key", "none"), Line("key", "rel"),
   Line("map", "rel"), Line("map", "abs"),
   Line("uri", "rel"), Line("uri", "abs"), Line("uri", "bad")}

\* responses of the playlist host to a GET
FetchResponses ==
  {"error", "notHls", "masterEmpty", "master", "masterExtinf", "media", "bare"}

VARIABLES
  req,            \* the request body
  maxConcurrent,  \* config.maxConcurrent
  response,       \* HTTP status sent on the request, 0 while none was sent
  handlerPc,      \* position of the /create-preview handler
  normalized,     \* const normalized
  queue,          \* pLimit: queue (positions of the waiting tasks)
  active,         \* pLimit: active
  startOrder,     \* history: tasks in the order next() started them
  taskPc,         \* position of each variant's task
  attempts,       \* hlsToTrimmedHls: attempts
  tempDir,        \* each variant's working directory
  thrown,         \* the error a variant's pipeline is propagating
  ops,            \* history: external operations issued per variant
  callbacks,      \* history: callback POSTs issued
  delivery,       \* outcome of the callback POST
  pickPc,         \* "idle", "ready" or "done": a call of pickMedianVariant
  pickIn,         \* its argument
  pickOut,        \* its result
  absPc,          \* "idle", "ready" or "done": a call of absolutizePlaylist
  absFetch,       \* the GET that returned the text: where the text was
                  \* finally served from, and the responseUrl axios reports
  absIn,          \* the lines of its text argument
  absOut,         \* the lines of its result
  uploads         \* uploadFilesToR2 of the variant observed file by file:
                  \* the files it maps, each file's position, and the
                  \* queue and active counter of its own pLimit(4)

batchVars == <<req, maxConcurrent, response, handlerPc, normalized, queue,
               active, startOrder, taskPc, attempts, tempDir, thrown, ops,
               callbacks, delivery, uploads>>

pureVars == <<pickPc, pickIn, pickOut, absPc, absFetch, absIn, absOut>>

vars == <<batchVars, pureVars>>

(* --------------------------- pure helpers ----------------------------- *)

\* mutant: the test written as x !== undefined, which null passes
TruthyNotUndefined(x) == TRUE

\* JavaScript truthiness of a URL field (null, undefined and "" are falsy)
Truthy(x) == x # Null

\* a || b
Or(a, b) == IF Truthy(a) THEN a ELSE b

\* normalizeVariant(raw, i), i the 0-based position
normalizeVariant(raw, i) ==
  [audioUrl  |-> Or(raw.audioUrl, Null),
   streamUrl |-> Or(raw.streamUrl, Null),
   imageUrl  |-> Or(raw.imageUrl, Null),
   index     |-> IF raw.hasIndex THEN raw.index
                 ELSE IF raw.hasId THEN raw.id
                 ELSE i]

\* the body check of the handler: 400 unless all three fields are usable
ShapeOk(body) == body.internalTaskId /\ body.isArray /\ body.customerId

\* What a variant has issued: downloads of the direct-audio file, playlist
\* GETs of the current fetchAndPrepareM3U8 call, ffmpeg runs, and calls of
\* uploadFilesToR2.
NoOps == [download |-> 0, fetch |-> 0, transcode |-> 0, upload |-> 0]

(* ------------------------------ pLimit -------------------------------- *)

\* the limiter of the batch: pLimit(config.maxConcurrent)
Limiter == [queue |-> queue, active |-> active, started |-> startOrder,
            concurrency |-> maxConcurrent]

\* mutant: the slot test written active > concurrency
nextOffByOne(lim) ==
  IF lim.active > lim.concurrency \/ Len(lim.queue) = 0 THEN lim
  ELSE [queue   |-> Tail(lim.queue),
        active  |-> lim.active + 1,
        started |-> Append(lim.started, Head(lim.queue)),
        concurrency |-> lim.concurrency]

\* mutant: queue.pop() in place of queue.shift()
nextLifo(lim) ==
  IF lim.active >= lim.concurrency \/ Len(lim.queue) = 0 THEN lim
  ELSE [queue   |-> SubSeq(lim.queue, 1, Len(lim.queue) - 1),
        active  |-> lim.active + 1,
        started |-> Append(lim.started, lim.queue[Len(lim.queue)]),
        concurrency |-> lim.concurrency]

\* const next = () => { ... }: start the head of the queue if a slot is free
next(lim) ==
  IF lim.active >= lim.concurrency \/ Len(lim.queue) = 0 THEN lim
  ELSE [queue   |-> Tail(lim.queue),
        active  |-> lim.active + 1,
        started |-> Append(lim.started, Head(lim.queue)),
        concurrency |-> lim.concurrency]

\* return (fn) => new Promise(...): queue.push, then next()
limit(lim, i) == next([lim EXCEPT !.queue = Append(@, i)])

\* normalized.map(variant => limit(...)): the tasks are submitted in list order
RECURSIVE SubmitAll(_, _, _)
SubmitAll(lim, i, n) ==
  IF i > n THEN lim ELSE SubmitAll(limit(lim, i), i + 1, n)

InSeq(x, s) == \E k \in 1..Len(s) : s[k] = x

(* ------------------------------ Init ---------------------------------- *)

\* uploadFilesToR2 has not been called
NoUploads == [files |-> << >>, pc |-> << >>, queue |-> << >>, active |-> 0,
              started |-> << >>]

\* pickMedianVariant returns null on an empty list
NoVariant == [bandwidth |-> 0, url |-> 0]

\* a GET that was not redirected and reports no responseUrl
NoFetch == [finalUrl |-> "U", responseUrl |-> Null]

PureIdle ==
  /\ pickPc = "idle" /\ pickIn = << >> /\ pickOut = NoVariant
  /\ absPc = "idle" /\ absFetch = NoFetch /\ absIn = << >> /\ absOut = << >>

BatchInit(requests) ==
  /\ req \in requests
  /\ maxConcurrent \in 1..DefaultMaxConcurrent
  /\ response = 0
  /\ handlerPc = "idle"
  /\ normalized = << >>
  /\ queue = << >>
  /\ active = 0
  /\ startOrder = << >>
  /\ taskPc = << >>
  /\ attempts = << >>
  /\ tempDir = << >>
  /\ thrown = << >>
  /\ ops = << >>
  /\ callbacks = << >>
  /\ delivery = "none"
  /\ uploads = NoUploads

Init == BatchInit(Requests) /\ PureIdle

\* batches of direct-audio and URL-less variants
InitDirect == BatchInit(DirectRequests) /\ PureIdle

(* ----------------------------- handler -------------------------------- *)

Tasks == 1..Len(taskPc)

MicrotaskPcs == {"admitted", "innerFulfilled", "innerRejected"}
SettledPcs == {"fulfilled", "rejected"}

AllSettled == \A i \in Tasks : taskPc[i] \in SettledPcs

\* mutant: the outcome of Promise.any, fulfilled by the first file put
promiseAny(pcs) ==
  IF \E f \in DOMAIN pcs : pcs[f] = "failed" THEN "rejected"
  ELSE IF \E f \in DOMAIN pcs : pcs[f] = "ok" THEN "fulfilled"
  ELSE "pending"

\* mutant: the outcome of Promise.allSettled, which never rejects
promiseAllSettled(pcs) ==
  IF \A f \in DOMAIN pcs : pcs[f] \in {"ok", "failed"} THEN "fulfilled"
  ELSE "pending"

\* Promise.all over the promises of the files' limited tasks: rejected as
\* soon as one of them is rejected, fulfilled when all are fulfilled
promiseAll(pcs) ==
  IF \E f \in DOMAIN pcs : pcs[f] = "failed" THEN "rejected"
  ELSE IF \A f \in DOMAIN pcs : pcs[f] = "ok" THEN "fulfilled"
  ELSE "pending"

\* uploadFilesToR2 was called for the observed variant and its Promise.all
\* has settled while processVariant still awaits it
UploadsAwaitedAndSettled ==
  /\ Len(taskPc) >= 1
  /\ taskPc[1] = "upload"
  /\ Len(uploads.files) > 0
  /\ promiseAll(uploads.pc) # "pending"

\* a promise reaction is waiting to run
MicrotaskPending ==
  \/ \E i \in Tasks : taskPc[i] \in MicrotaskPcs
  \/ handlerPc = "awaitAll" /\ AllSettled
  \/ \E f \in DOMAIN uploads.pc :
       uploads.pc[f] \in {"admitted", "innerOk", "innerFailed"}
  \/ UploadsAwaitedAndSettled

\* mutant: the accepted request is answered only when the batch is over
respondWhenDone(body) == IF ShapeOk(body) THEN 0 ELSE 400

\* the status the handler sends before any processing: 400 on a body that
\* fails the shape check, 202 otherwise
respond(body) == IF ShapeOk(body) THEN 202 ELSE 400

\* app.post('/create-preview'): the shape check and the response.  The
\* handler runs on without yielding; the step ends here so that the order
\* of the response and of the processing is a state of its own.
HandleRequest ==
  /\ handlerPc = "idle"
  /\ response' = respond(req)
  /\ handlerPc' = IF ShapeOk(req) THEN "accepted" ELSE "rejected"
  /\ UNCHANGED <<req, maxConcurrent, normalized, queue, active, startOrder,
                 taskPc, attempts, tempDir, thrown, ops, callbacks, delivery,
                 uploads, pureVars>>

\* the handler from normalization up to await Promise.allSettled(...)
StartBatch ==
  /\ handlerPc = "accepted"
  /\ IF \E k \in 1..Len(req.sunoVariants) : req.sunoVariants[k].isNull
     THEN \* normalizeVariant reads raw.audioUrl of null: TypeError,
          \* nothing catches it in the async handler
          /\ handlerPc' = "crashed"
          /\ UNCHANGED <<normalized, queue, active, startOrder, taskPc,
                         attempts, tempDir, thrown, ops>>
     ELSE LET n    == Len(req.sunoVariants)
              norm == [k \in 1..n |->
                         normalizeVariant(req.sunoVariants[k], k - 1)]
              lim  == SubmitAll(Limiter, 1, n)
          IN  /\ normalized' = norm
              /\ queue' = lim.queue
              /\ active' = lim.active
              /\ startOrder' = lim.started
              /\ taskPc' = [k \in 1..n |->
                              IF InSeq(k, lim.started) THEN "admitted"
                              ELSE "queued"]
              /\ attempts' = [k \in 1..n |-> 0]
              /\ tempDir' = [k \in 1..n |-> "none"]
              /\ thrown' = [k \in 1..n |-> "none"]
              /\ ops' = [k \in 1..n |-> NoOps]
              /\ handlerPc' = "awaitAll"
  /\ UNCHANGED <<req, maxConcurrent, response, callbacks, delivery, uploads,
                 pureVars>>

(* ------------------------- variant pipeline --------------------------- *)

handlerVars == <<req, maxConcurrent, response, handlerPc, normalized,
                 callbacks, delivery, uploads, pureVars>>
limiterVars == <<queue, active, startOrder>>

Goto(i, pc) == taskPc' = [taskPc EXCEPT ![i] = pc]
\* the class of the error thrown: MissingUrls, MkdtempError, DownloadError,
\* ResolveError, TranscodeError, UploadError or CleanupError
Throw(i, err) == thrown' = [thrown EXCEPT ![i] = err]
Issue(i, op) == ops' = [ops EXCEPT ![i][op] = @ + 1]

\* processVariantSafe: if (!variant || (!variant.audioUrl && !variant.streamUrl))
MissingUrls(variant) == ~Truthy(variant.audioUrl) /\ ~Truthy(variant.streamUrl)

\* Promise.resolve().then(fn): processVariantSafe runs up to its first await,
\* fs.mkdtemp in processVariant, or throws
TaskStart(i) ==
  /\ taskPc[i] = "admitted"
  /\ IF MissingUrls(normalized[i])
     THEN Goto(i, "innerRejected") /\ Throw(i, "MissingUrls")
     ELSE Goto(i, "mkdtemp") /\ UNCHANGED thrown
  /\ UNCHANGED <<handlerVars, limiterVars, attempts, tempDir, ops>>

\* mutant: the stream URL preferred when a variant has both URLs
MkdtempDoneStreamFirst(i, ok) ==
  /\ ~MicrotaskPending
  /\ taskPc[i] = "mkdtemp"
  /\ IF ~ok
     THEN Goto(i, "innerRejected") /\ Throw(i, "MkdtempError")
          /\ UNCHANGED <<tempDir, ops>>
     ELSE
       /\ tempDir' = [tempDir EXCEPT ![i] = "exists"]
       /\ LET variant  == normalized[i]
              inputUrl == Or(variant.streamUrl, variant.audioUrl)
          IN  IF ~Truthy(inputUrl)
              THEN Goto(i, "rm") /\ Throw(i, "MissingUrls") /\ UNCHANGED ops
              ELSE IF ~Truthy(variant.streamUrl)
              THEN Goto(i, "download") /\ Issue(i, "download") /\ UNCHANGED thrown
              ELSE Goto(i, "fetch1") /\ Issue(i, "fetch") /\ UNCHANGED thrown
  /\ UNCHANGED <<handlerVars, limiterVars, attempts>>

\* processVariant after mkdtemp: choose the path and issue its first
\* request.  A failed mkdtemp throws before the try block: there is no
\* directory and no fs.rm.
MkdtempDone(i, ok) ==
  /\ ~MicrotaskPending
  /\ taskPc[i] = "mkdtemp"
  /\ IF ~ok
     THEN Goto(i, "innerRejected") /\ Throw(i, "MkdtempError")
          /\ UNCHANGED <<tempDir, ops>>
     ELSE
       /\ tempDir' = [tempDir EXCEPT ![i] = "exists"]
       /\ LET variant  == normalized[i]
              inputUrl == Or(variant.audioUrl, variant.streamUrl)
          IN  IF ~Truthy(inputUrl)
              THEN \* throw, caught and rethrown; finally issues fs.rm
                   Goto(i, "rm") /\ Throw(i, "MissingUrls") /\ UNCHANGED ops
              ELSE IF Truthy(variant.audioUrl)
              THEN \* mp3ToTrimmedHls: axios.get(mp3Url)
                   Goto(i, "download") /\ Issue(i, "download") /\ UNCHANGED thrown
              ELSE \* hlsToTrimmedHls, first pass of the loop: fetchAndPrepareM3U8
                   Goto(i, "fetch1") /\ Issue(i, "fetch") /\ UNCHANGED thrown
  /\ UNCHANGED <<handlerVars, limiterVars, attempts>>

\* mutant: a failed download is requested once more
DownloadDoneWithRetry(i, ok) ==
  /\ ~MicrotaskPending
  /\ taskPc[i] = "download"
  /\ IF ok
     THEN Goto(i, "ffmpegMp3") /\ Issue(i, "transcode") /\ UNCHANGED thrown
     ELSE IF ops[i].download < 2
     THEN Goto(i, "download") /\ Issue(i, "download") /\ UNCHANGED thrown
     ELSE Goto(i, "rm") /\ Throw(i, "DownloadError") /\ UNCHANGED ops
  /\ UNCHANGED <<handlerVars, limiterVars, attempts, tempDir>>

\* mp3ToTrimmedHls: the download returned; on success ffmpeg is started
DownloadDone(i, ok) ==
  /\ ~MicrotaskPending
  /\ taskPc[i] = "download"
  /\ IF ok
     THEN Goto(i, "ffmpegMp3") /\ Issue(i, "transcode") /\ UNCHANGED thrown
     ELSE Goto(i, "rm") /\ Throw(i, "DownloadError") /\ UNCHANGED ops
  /\ UNCHANGED <<handlerVars, limiterVars, attempts, tempDir>>

\* mp3ToTrimmedHls: ffmpeg ended; on success processVariant reads the
\* directory and calls uploadFilesToR2
FfmpegMp3Done(i, ok) ==
  /\ ~MicrotaskPending
  /\ taskPc[i] = "ffmpegMp3"
  /\ IF ok
     THEN Goto(i, "upload") /\ Issue(i, "upload") /\ UNCHANGED thrown
     ELSE Goto(i, "rm") /\ Throw(i, "TranscodeError") /\ UNCHANGED ops
  /\ UNCHANGED <<handlerVars, limiterVars, attempts, tempDir>>

\* fetchAndPrepareM3U8: content-type includes mpegurl or body starts #EXTM3U
IsHlsContent(r) == r \notin {"error", "notHls"}
\* /#EXT-X-STREAM-INF/i.test(text)
isMasterPlaylist(r) == r \in {"masterEmpty", "master", "masterExtinf"}
\* /#EXTINF:/i.test(text)
isMediaPlaylist(r) == r \in {"media", "masterExtinf"}
\* mutant: the pick is taken for granted
HasVariantsAlways(r) == TRUE

\* parseVariantsFromMaster(text, baseUrl).length > 0
HasVariants(r) == r \in {"master", "masterExtinf"}

\* mutant: the catch block rethrows at once
HlsAttemptFailedNoRetry(i, err) ==
  /\ attempts' = [attempts EXCEPT ![i] = @ + 1]
  /\ Goto(i, "rm") /\ Throw(i, err)

\* hlsToTrimmedHls: catch (e) { attempts++; if (attempts >= 2) throw e; sleep }
HlsAttemptFailed(i, err) ==
  /\ attempts' = [attempts EXCEPT ![i] = @ + 1]
  /\ IF attempts[i] + 1 >= MaxHlsAttempts
     THEN Goto(i, "rm") /\ Throw(i, err)
     ELSE Goto(i, "sleep") /\ UNCHANGED thrown

\* fetchAndPrepareM3U8: the first GET returned
Fetch1Done(i, r) ==
  /\ ~MicrotaskPending
  /\ taskPc[i] = "fetch1"
  /\ IF r = "error" \/ ~IsHlsContent(r)
     THEN HlsAttemptFailed(i, "ResolveError") /\ UNCHANGED ops
     ELSE IF isMasterPlaylist(r)
     THEN IF HasVariants(r)
          THEN Goto(i, "fetch2") /\ Issue(i, "fetch")
               /\ UNCHANGED <<attempts, thrown>>
          ELSE HlsAttemptFailed(i, "ResolveError") /\ UNCHANGED ops
     ELSE \* absolutize, write source.m3u8, start ffmpeg on it
          Goto(i, "ffmpegHls") /\ Issue(i, "transcode")
          /\ UNCHANGED <<attempts, thrown>>
  /\ UNCHANGED <<handlerVars, limiterVars, tempDir>>

\* mutant: a rendition that is itself a master playlist is followed
Fetch2DoneFollowsMaster(i, r) ==
  /\ ~MicrotaskPending
  /\ taskPc[i] = "fetch2"
  /\ IF r = "error"
     THEN HlsAttemptFailed(i, "ResolveError") /\ UNCHANGED ops
     ELSE IF isMasterPlaylist(r) /\ ops[i].fetch < 3
     THEN Goto(i, "fetch2") /\ Issue(i, "fetch") /\ UNCHANGED <<attempts, thrown>>
     ELSE IF ~isMediaPlaylist(r)
     THEN HlsAttemptFailed(i, "ResolveError") /\ UNCHANGED ops
     ELSE Goto(i, "ffmpegHls") /\ Issue(i, "transcode")
          /\ UNCHANGED <<attempts, thrown>>
  /\ UNCHANGED <<handlerVars, limiterVars, tempDir>>

\* fetchAndPrepareM3U8: the GET of the chosen rendition returned
Fetch2Done(i, r) ==
  /\ ~MicrotaskPending
  /\ taskPc[i] = "fetch2"
  /\ IF r = "error"
     THEN HlsAttemptFailed(i, "ResolveError") /\ UNCHANGED ops
     ELSE IF ~isMediaPlaylist(r)
     THEN HlsAttemptFailed(i, "ResolveError") /\ UNCHANGED ops
     ELSE Goto(i, "ffmpegHls") /\ Issue(i, "transcode")
          /\ UNCHANGED <<attempts, thrown>>
  /\ UNCHANGED <<handlerVars, limiterVars, tempDir>>

\* hlsToTrimmedHls: ffmpeg on the local playlist ended
FfmpegHlsDone(i, ok) ==
  /\ ~MicrotaskPending
  /\ taskPc[i] = "ffmpegHls"
  /\ IF ok
     THEN Goto(i, "upload") /\ Issue(i, "upload")
          /\ UNCHANGED <<attempts, thrown>>
     ELSE HlsAttemptFailed(i, "TranscodeError") /\ UNCHANGED ops
  /\ UNCHANGED <<handlerVars, limiterVars, tempDir>>

\* hlsToTrimmedHls: sleep(800) elapsed, the loop fetches the playlist again
SleepDone(i) ==
  /\ ~MicrotaskPending
  /\ taskPc[i] = "sleep"
  /\ Goto(i, "fetch1")
  /\ ops' = [ops EXCEPT ![i].fetch = 1]
  /\ UNCHANGED <<handlerVars, limiterVars, attempts, tempDir, thrown>>

\* uploadFilesToR2: Promise.all over the puts fulfilled (ok) or rejected;
\* either way processVariant goes on to finally { fs.rm }
UploadDone(i, ok) ==
  /\ ~MicrotaskPending
  /\ taskPc[i] = "upload"
  /\ Goto(i, "rm")
  /\ IF ok THEN UNCHANGED thrown ELSE Throw(i, "UploadError")
  /\ UNCHANGED <<handlerVars, limiterVars, attempts, tempDir, ops>>

\* mutant: the directory is removed only when nothing was thrown
rmOnSuccessOnly(dir, err, ok) == IF ok /\ err = "none" THEN "removed" ELSE dir

\* fs.rm(tempDir, { recursive: true, force: true }) in the finally block
rm(dir, err, ok) == IF ok THEN "removed" ELSE dir

\* processVariant: fs.rm returned and the function returns its result or
\* rethrows, or fs.rm failed and its error leaves the finally block in
\* place of the result or of the error caught before
RmDone(i, ok) ==
  /\ ~MicrotaskPending
  /\ taskPc[i] = "rm"
  /\ tempDir' = [tempDir EXCEPT ![i] = rm(@, thrown[i], ok)]
  /\ IF ok
     THEN /\ Goto(i, IF thrown[i] = "none" THEN "innerFulfilled"
                     ELSE "innerRejected")
          /\ UNCHANGED thrown
     ELSE Goto(i, "innerRejected") /\ Throw(i, "CleanupError")
  /\ UNCHANGED <<handlerVars, limiterVars, attempts, ops>>

\* mutant: a rejection also rejects every task that has not settled yet
settleCancelSiblings(pcs, i) ==
  [k \in DOMAIN pcs |->
     IF k = i
     THEN (IF pcs[i] = "innerFulfilled" THEN "fulfilled" ELSE "rejected")
     ELSE IF pcs[i] = "innerRejected" /\ pcs[k] \notin {"fulfilled", "rejected"}
     THEN "rejected"
     ELSE pcs[k]]

\* pLimit: resolve(val) or reject(err) settles the promise of task i only
settle(pcs, i) ==
  [pcs EXCEPT ![i] = IF pcs[i] = "innerFulfilled" THEN "fulfilled"
                     ELSE "rejected"]

\* mutant: the rejection handler written without its call of next()
LimiterSettleNoWakeOnReject(i) ==
  /\ taskPc[i] \in {"innerFulfilled", "innerRejected"}
  /\ LET freed == [Limiter EXCEPT !.active = @ - 1]
         lim   == IF taskPc[i] = "innerFulfilled" THEN next(freed) ELSE freed
         pcs   == settle(taskPc, i)
     IN  /\ queue' = lim.queue
         /\ active' = lim.active
         /\ startOrder' = lim.started
         /\ taskPc' = [k \in Tasks |->
                         IF InSeq(k, lim.started) /\ ~InSeq(k, startOrder)
                         THEN "admitted" ELSE pcs[k]]
  /\ UNCHANGED <<handlerVars, attempts, tempDir, thrown, ops>>

\* pLimit: .then((val) => { active--; resolve(val); next(); })
\*         .catch((err) => { active--; reject(err); next(); })
LimiterSettle(i) ==
  /\ taskPc[i] \in {"innerFulfilled", "innerRejected"}
  /\ LET lim == next([Limiter EXCEPT !.active = @ - 1])
         pcs == settle(taskPc, i)
     IN  /\ queue' = lim.queue
         /\ active' = lim.active
         /\ startOrder' = lim.started
         /\ taskPc' = [k \in Tasks |->
                         IF InSeq(k, lim.started) /\ ~InSeq(k, startOrder)
                         THEN "admitted" ELSE pcs[k]]
  /\ UNCHANGED <<handlerVars, attempts, tempDir, thrown, ops>>

(* ----------------------------- callback ------------------------------- *)

\* the value processVariant returns (title left out)
variantResult(variant) ==
  [index         |-> variant.index,
   cover         |-> Or(variant.imageUrl, Null),
   fullUrl       |-> Or(variant.audioUrl, Null),
   previewR2Path |-> [variantIndex |-> variant.index, file |-> "demo.m3u8"]]

\* mutant: the filter left out, every settled task contributes an item
RECURSIVE finalItemsOfAll(_, _)
finalItemsOfAll(pcs, n) ==
  IF n = 0 THEN << >>
  ELSE Append(finalItemsOfAll(pcs, n - 1), variantResult(normalized[n]))

\* results.filter(r => r.status === 'fulfilled').map(r => r.value)
RECURSIVE finalItemsOf(_, _)
finalItemsOf(pcs, n) ==
  IF n = 0 THEN << >>
  ELSE IF pcs[n] = "fulfilled"
       THEN Append(finalItemsOf(pcs, n - 1), variantResult(normalized[n]))
       ELSE finalItemsOf(pcs, n - 1)

\* mutant: the map yields the bare position i, so filter(Boolean) drops
\* position 0
RECURSIVE errsOfDropsZero(_, _)
errsOfDropsZero(pcs, n) ==
  IF n = 0 THEN << >>
  ELSE IF pcs[n] = "rejected" /\ n - 1 # 0
       THEN Append(errsOfDropsZero(pcs, n - 1),
                   [index |-> n - 1, error |-> thrown[n]])
       ELSE errsOfDropsZero(pcs, n - 1)

\* results.map((r, i) => rejected ? { index: i, error } : null).filter(Boolean)
RECURSIVE errsOf(_, _)
errsOf(pcs, n) ==
  IF n = 0 THEN << >>
  ELSE IF pcs[n] = "rejected"
       THEN Append(errsOf(pcs, n - 1), [index |-> n - 1, error |-> thrown[n]])
       ELSE errsOf(pcs, n - 1)

\* mutant: the test written finalItems.length <= 1
allFailedBelowTwo(finalItems) == Len(finalItems) <= 1

\* if (finalItems.length === 0)
allFailed(finalItems) == Len(finalItems) = 0

\* the body of the callback POST
callbackBody(pcs) ==
  LET finalItems == finalItemsOf(pcs, Len(pcs))
  IN  IF allFailed(finalItems)
      THEN [mode |-> "conversion-failed", hasFinalItems |-> FALSE,
            finalItems |-> << >>, hasErrs |-> TRUE,
            errs |-> errsOf(pcs, Len(pcs))]
      ELSE [mode |-> "conversion-complete", hasFinalItems |-> TRUE,
            finalItems |-> finalItems, hasErrs |-> FALSE, errs |-> << >>]

\* the handler after await Promise.allSettled(...): safePost is called
HandlerResume ==
  /\ handlerPc = "awaitAll"
  /\ AllSettled
  /\ callbacks' = Append(callbacks, callbackBody(taskPc))
  /\ handlerPc' = "posting"
  /\ UNCHANGED <<req, maxConcurrent, response, normalized, delivery,
                 limiterVars, taskPc, attempts, tempDir, thrown, ops,
                 uploads, pureVars>>

\* mutant: safePost without its catch: the error of axios.post leaves the
\* handler
postUncaught(ok) ==
  IF ok THEN [delivery |-> "delivered", pc |-> "done"]
  ELSE [delivery |-> "failedLogged", pc |-> "crashed"]

\* safePost: try { await axios.post(...) } catch (e) { console.error(...) }:
\* it returns normally whether the POST succeeded or threw
safePost(ok) ==
  [delivery |-> IF ok THEN "delivered" ELSE "failedLogged", pc |-> "done"]

\* safePost: axios.post returned or threw (an error status, a network error
\* or the timeout); the handler returns
PostDone(ok) ==
  /\ ~MicrotaskPending
  /\ handlerPc = "posting"
  /\ delivery' = safePost(ok).delivery
  /\ handlerPc' = safePost(ok).pc
  /\ UNCHANGED <<req, maxConcurrent, response, normalized, callbacks,
                 limiterVars, taskPc, attempts, tempDir, thrown, ops,
                 uploads, pureVars>>

Next ==
  \/ HandleRequest
  \/ StartBatch
  \/ \E i \in Tasks : TaskStart(i)
  \/ \E i \in Tasks : MkdtempDone(i, TRUE)
  \/ \E i \in Tasks, ok \in BOOLEAN : DownloadDone(i, ok)
  \/ \E i \in Tasks, ok \in BOOLEAN : FfmpegMp3Done(i, ok)
  \/ \E i \in Tasks, r \in FetchResponses : Fetch1Done(i, r)
  \/ \E i \in Tasks, r \in FetchResponses : Fetch2Done(i, r)
  \/ \E i \in Tasks, ok \in BOOLEAN : FfmpegHlsDone(i, ok)
  \/ \E i \in Tasks : SleepDone(i)
  \/ \E i \in Tasks, ok \in BOOLEAN : UploadDone(i, ok)
  \/ \E i \in Tasks : RmDone(i, TRUE)
  \/ \E i \in Tasks : LimiterSettle(i)
  \/ HandlerResume
  \/ \E ok \in BOOLEAN : PostDone(ok)

\* In Spec and SpecDirect fs.mkdtemp and fs.rm succeed; SpecCleanup below is
\* the same program with either of them failing.
Spec == Init /\ [][Next]_vars

\* the same program on batches that never take the playlist path
NextDirect ==
  \/ HandleRequest
  \/ StartBatch
  \/ \E i \in Tasks : TaskStart(i)
  \/ \E i \in Tasks : MkdtempDone(i, TRUE)
  \/ \E i \in Tasks, ok \in BOOLEAN : DownloadDone(i, ok)
  \/ \E i \in Tasks, ok \in BOOLEAN : FfmpegMp3Done(i, ok)
  \/ \E i \in Tasks, ok \in BOOLEAN : UploadDone(i, ok)
  \/ \E i \in Tasks : RmDone(i, TRUE)
  \/ \E i \in Tasks : LimiterSettle(i)
  \/ HandlerResume
  \/ \E ok \in BOOLEAN : PostDone(ok)

SpecDirect == InitDirect /\ [][NextDirect]_vars

\* The same program with the event loop running: a promise reaction that
\* is due runs, and every request, file operation and ffmpeg run that was
\* issued comes back, with either outcome.
FairDirect ==
  /\ WF_vars(HandleRequest)
  /\ WF_vars(StartBatch)
  /\ WF_vars(\E i \in Tasks : TaskStart(i))
  /\ WF_vars(\E i \in Tasks : MkdtempDone(i, TRUE))
  /\ WF_vars(\E i \in Tasks, ok \in BOOLEAN : DownloadDone(i, ok))
  /\ WF_vars(\E i \in Tasks, ok \in BOOLEAN : FfmpegMp3Done(i, ok))
  /\ WF_vars(\E i \in Tasks, ok \in BOOLEAN : UploadDone(i, ok))
  /\ WF_vars(\E i \in Tasks : RmDone(i, TRUE))
  /\ WF_vars(\E i \in Tasks : LimiterSettle(i))
  /\ WF_vars(HandlerResume)
  /\ WF_vars(\E ok \in BOOLEAN : PostDone(ok))

\* direct-audio and URL-less batches of at most MaxLimiterVariants variants
LimiterRequests ==
  [internalTaskId : {TRUE}, customerId : {TRUE}, isArray : {TRUE},
   sunoVariants : SeqsUpTo(DirectRecords, MaxLimiterVariants)]

InitLimiter == BatchInit(LimiterRequests) /\ PureIdle

SpecLimiter == InitLimiter /\ [][NextDirect]_vars /\ FairDirect

\* well-formed bodies of at most MaxCleanupVariants record variants
CleanupRequests ==
  [internalTaskId : {TRUE}, customerId : {TRUE}, isArray : {TRUE},
   sunoVariants : SeqsUpTo(RawRecords, MaxCleanupVariants)]

InitCleanup == BatchInit(CleanupRequests) /\ PureIdle

\* the same program with fs.mkdtemp and fs.rm failing or not
NextCleanup ==
  \/ HandleRequest
  \/ StartBatch
  \/ \E i \in Tasks : TaskStart(i)
  \/ \E i \in Tasks, ok \in BOOLEAN : MkdtempDone(i, ok)
  \/ \E i \in Tasks, ok \in BOOLEAN : DownloadDone(i, ok)
  \/ \E i \in Tasks, ok \in BOOLEAN : FfmpegMp3Done(i, ok)
  \/ \E i \in Tasks, r \in FetchResponses : Fetch1Done(i, r)
  \/ \E i \in Tasks, r \in FetchResponses : Fetch2Done(i, r)
  \/ \E i \in Tasks, ok \in BOOLEAN : FfmpegHlsDone(i, ok)
  \/ \E i \in Tasks : SleepDone(i)
  \/ \E i \in Tasks, ok \in BOOLEAN : UploadDone(i, ok)
  \/ \E i \in Tasks, ok \in BOOLEAN : RmDone(i, ok)
  \/ \E i \in Tasks : LimiterSettle(i)
  \/ HandlerResume
  \/ \E ok \in BOOLEAN : PostDone(ok)

SpecCleanup == InitCleanup /\ [][NextCleanup]_vars

(* --------------------------- normalization ---------------------------- *)

\* the numbers a raw record carries in its index or id field
RawIndexValues == 0..1

\* raw records with a direct-audio URL that carry a numeric index, a numeric
\* id, both or neither
IndexedRecords ==
  [isNull : {FALSE}, audioUrl : {"mp3"}, streamUrl : {Null}, imageUrl : {Null},
   hasIndex : BOOLEAN, index : RawIndexValues,
   hasId : BOOLEAN, id : RawIndexValues]

IndexedRequests ==
  [internalTaskId : {TRUE}, customerId : {TRUE}, isArray : {TRUE},
   sunoVariants : SeqsUpTo(IndexedRecords, MaxVariants)]

InitNormalize == BatchInit(IndexedRequests) /\ PureIdle

\* the handler up to the point where the normalized list exists and its
\* tasks are submitted
NextNormalize ==
  \/ HandleRequest
  \/ StartBatch

SpecNormalize == InitNormalize /\ [][NextNormalize]_vars

\* the whole program on the same requests: direct-audio variants that carry
\* their own index or id
SpecIndexed == InitNormalize /\ [][NextDirect]_vars

(* -------------------------- uploadFilesToR2 --------------------------- *)

\* SpecUpload is the program on a batch of one variant, with
\* uploadFilesToR2 followed file by file: the
\* action UploadDone of the other specifications stands for the actions
\* ReaddirDone .. UploadsSettled below.

File(base, ext, n) == [base |-> base, ext |-> ext, n |-> n]

\* The working directory after a successful transcode, as fs.readdir lists
\* it: demo.m3u8, k segment files, and original.mp3 (direct-audio path) or
\* source.m3u8 (playlist path).  readdir promises no order: the listing is
\* taken in name order or in the reverse of it.
DirListing(variant, k, reversed) ==
  LET direct == Truthy(variant.audioUrl)
      byName == <<File("demo", "m3u8", 0)>>
                \o (IF direct THEN <<File("original", "mp3", 0)>> ELSE << >>)
                \o [n \in 1..k |-> File("segment", "ts", n - 1)]
                \o (IF direct THEN << >> ELSE <<File("source", "m3u8", 0)>>)
  IN  IF reversed
      THEN [n \in 1..Len(byName) |-> byName[Len(byName) + 1 - n]]
      ELSE byName

\* the name of a file of the working directory
fileName(f) ==
  IF f.base = "segment" THEN "segment" \o ToString(f.n) \o ".ts"
  ELSE f.base \o "." \o f.ext

\* const key = `${prefix}${file}`, prefix = `previews/${variantTaskId}/`:
\* the key names the variant by its index (the batch id is the same for all)
putKey(variant, f) == [variantIndex |-> variant.index, file |-> fileName(f)]

\* mutant: only the segment files pass the filter
uploadFilterSegmentsOnly(files) == SelectSeq(files, LAMBDA f : f.ext = "ts")

\* files.filter(f => f.endsWith('.m3u8') || f.endsWith('.ts'))
uploadFilter(files) == SelectSeq(files, LAMBDA f : f.ext \in {"m3u8", "ts"})

\* mutant: the limiter of the call created as pLimit(5)
UploadLimiterOfFive ==
  [queue |-> uploads.queue, active |-> uploads.active,
   started |-> uploads.started, concurrency |-> UploadConcurrency + 1]

\* the limiter of one uploadFilesToR2 call: pLimit(4)
UploadLimiter ==
  [queue |-> uploads.queue, active |-> uploads.active,
   started |-> uploads.started, concurrency |-> UploadConcurrency]

uploadOtherVars == <<req, maxConcurrent, response, handlerPc, normalized,
                     queue, active, startOrder, attempts, tempDir, ops,
                     callbacks, delivery, pureVars>>

\* processVariant: fs.readdir returned; uploadFilesToR2 filters the names
\* and maps each through its limiter, which starts the first four
ReaddirDone(k, reversed) ==
  /\ ~MicrotaskPending
  /\ Len(taskPc) >= 1
  /\ taskPc[1] = "upload"
  /\ Len(uploads.files) = 0
  /\ LET files == uploadFilter(DirListing(normalized[1], k, reversed))
         lim   == SubmitAll([UploadLimiter EXCEPT !.queue = << >>, !.active = 0,
                                                  !.started = << >>],
                            1, Len(files))
     IN  uploads' = [files   |-> files,
                     pc      |-> [f \in 1..Len(files) |->
                                    IF InSeq(f, lim.started) THEN "admitted"
                                    ELSE "queued"],
                     queue   |-> lim.queue,
                     active  |-> lim.active,
                     started |-> lim.started]
  /\ UNCHANGED <<uploadOtherVars, taskPc, thrown>>

\* the limited task of file f starts: fs.readFile is issued
PutTaskStart(f) ==
  /\ uploads.pc[f] = "admitted"
  /\ uploads' = [uploads EXCEPT !.pc[f] = "reading"]
  /\ UNCHANGED <<uploadOtherVars, taskPc, thrown>>

\* fs.readFile returned: s3Client.send(new PutObjectCommand(...)) is issued,
\* or the read failed; a file of a removed directory cannot be read
ReadFileDone(f, ok) ==
  /\ ~MicrotaskPending
  /\ uploads.pc[f] = "reading"
  /\ ok => tempDir[1] = "exists"
  /\ uploads' = [uploads EXCEPT !.pc[f] = IF ok THEN "putting" ELSE "innerFailed"]
  /\ UNCHANGED <<uploadOtherVars, taskPc, thrown>>

\* s3Client.send returned or threw
PutDone(f, ok) ==
  /\ ~MicrotaskPending
  /\ uploads.pc[f] = "putting"
  /\ uploads' = [uploads EXCEPT !.pc[f] = IF ok THEN "innerOk" ELSE "innerFailed"]
  /\ UNCHANGED <<uploadOtherVars, taskPc, thrown>>

\* pLimit(4): the reaction to the end of file f's task: active--, the file's
\* promise is settled, next() starts the head of the queue
UploadLimiterSettle(f) ==
  /\ uploads.pc[f] \in {"innerOk", "innerFailed"}
  /\ LET lim == next([UploadLimiter EXCEPT !.active = @ - 1])
         pcs == [uploads.pc EXCEPT ![f] = IF @ = "innerOk" THEN "ok" ELSE "failed"]
     IN  uploads' = [uploads EXCEPT
                       !.queue   = lim.queue,
                       !.active  = lim.active,
                       !.started = lim.started,
                       !.pc      = [g \in DOMAIN pcs |->
                                      IF InSeq(g, lim.started)
                                         /\ ~InSeq(g, uploads.started)
                                      THEN "admitted" ELSE pcs[g]]]
  /\ UNCHANGED <<uploadOtherVars, taskPc, thrown>>

\* processVariant resumes from await uploadFilesToR2(...): with the result
\* on its way to return, or with the rejection of Promise.all thrown,
\* caught and rethrown; either way finally issues fs.rm
UploadsSettled ==
  /\ UploadsAwaitedAndSettled
  /\ Goto(1, "rm")
  /\ IF promiseAll(uploads.pc) = "fulfilled" THEN UNCHANGED thrown
     ELSE Throw(1, "UploadError")
  /\ UNCHANGED <<uploadOtherVars, uploads>>

\* well-formed bodies of one variant that has a URL
UploadRequests ==
  [internalTaskId : {TRUE}, customerId : {TRUE}, isArray : {TRUE},
   sunoVariants : {<<r>> : r \in {x \in RawRecords :
                                     x.audioUrl # Null \/ x.streamUrl # Null}}]

InitUpload ==
  /\ BatchInit(UploadRequests)
  /\ maxConcurrent = DefaultMaxConcurrent
  /\ PureIdle

NextUpload ==
  \/ HandleRequest
  \/ StartBatch
  \/ \E i \in Tasks : TaskStart(i)
  \/ \E i \in Tasks : MkdtempDone(i, TRUE)
  \/ \E i \in Tasks, ok \in BOOLEAN : DownloadDone(i, ok)
  \/ \E i \in Tasks, ok \in BOOLEAN : FfmpegMp3Done(i, ok)
  \/ \E i \in Tasks, r \in FetchResponses : Fetch1Done(i, r)
  \/ \E i \in Tasks, r \in FetchResponses : Fetch2Done(i, r)
  \/ \E i \in Tasks, ok \in BOOLEAN : FfmpegHlsDone(i, ok)
  \/ \E i \in Tasks : SleepDone(i)
  \/ \E k \in 1..MaxSegments, reversed \in BOOLEAN : ReaddirDone(k, reversed)
  \/ \E f \in DOMAIN uploads.pc : PutTaskStart(f)
  \/ \E f \in DOMAIN uploads.pc, ok \in BOOLEAN : ReadFileDone(f, ok)
  \/ \E f \in DOMAIN uploads.pc, ok \in BOOLEAN : PutDone(f, ok)
  \/ \E f \in DOMAIN uploads.pc : UploadLimiterSettle(f)
  \/ UploadsSettled
  \/ \E i \in Tasks : RmDone(i, TRUE)
  \/ \E i \in Tasks : LimiterSettle(i)
  \/ HandlerResume
  \/ \E ok \in BOOLEAN : PostDone(ok)

SpecUpload == InitUpload /\ [][NextUpload]_vars

(* ------------------------ pickMedianVariant --------------------------- *)

\* variants.slice().sort((a, b) => a.bandwidth - b.bandwidth): Array.sort is
\* stable, so equal bandwidths keep their order.  Insert v after every
\* element that is not larger.
RECURSIVE insertByBandwidth(_, _)
insertByBandwidth(sorted, v) ==
  IF Len(sorted) = 0 THEN <<v>>
  ELSE IF sorted[Len(sorted)].bandwidth <= v.bandwidth THEN Append(sorted, v)
  ELSE Append(insertByBandwidth(SubSeq(sorted, 1, Len(sorted) - 1), v),
              sorted[Len(sorted)])

RECURSIVE sortByBandwidth(_)
sortByBandwidth(variants) ==
  IF Len(variants) = 0 THEN << >>
  ELSE insertByBandwidth(sortByBandwidth(SubSeq(variants, 1, Len(variants) - 1)),
                         variants[Len(variants)])

\* function pickMedianVariant(variants); positions are 1-based here
pickMedianVariant(variants) ==
  IF Len(variants) = 0 THEN NoVariant
  ELSE LET sorted == sortByBandwidth(variants)
           at     == (Len(sorted) \div 2) + 1
       IN  IF at \in DOMAIN sorted THEN sorted[at] ELSE sorted[1]

\* the candidates parseVariantsFromMaster built from a master playlist, the
\* k-th with the k-th bandwidth and its own URL
RenditionLists ==
  {[k \in 1..Len(bws) |-> [bandwidth |-> bws[k], url |-> k]] :
     bws \in SeqsUpTo(Bandwidths, MaxRenditions)}

BatchIdle ==
  BatchInit({[internalTaskId |-> TRUE, customerId |-> TRUE, isArray |-> TRUE,
              sunoVariants |-> << >>]})
  /\ maxConcurrent = DefaultMaxConcurrent

InitPick ==
  /\ BatchIdle
  /\ pickPc = "ready" /\ pickIn \in RenditionLists /\ pickOut = NoVariant
  /\ absPc = "idle" /\ absFetch = NoFetch /\ absIn = << >> /\ absOut = << >>

PickMedian ==
  /\ pickPc = "ready"
  /\ pickOut' = pickMedianVariant(pickIn)
  /\ pickPc' = "done"
  /\ UNCHANGED <<batchVars, pickIn, absPc, absFetch, absIn, absOut>>

NextPick == PickMedian

SpecPick == InitPick /\ [][NextPick]_vars

(* ------------------------ absolutizePlaylist -------------------------- *)

\* resolveRelative(base, maybeRel): new URL(maybeRel, base).toString(), or
\* maybeRel itself when new URL throws
\* base is "U", the URL the GET was sent to, or "R", the URL a redirect led
\* to; a relative reference resolves to a URL under base, an absolute URL
\* to itself
resolveRelative(base, uri) ==
  IF uri = "rel" THEN (IF base = "U" THEN "U/rel" ELSE "R/rel") ELSE uri

\* mutant: the base is the URL the GET was sent to
baseUrlOfRequest(fetch, requestUrl) == requestUrl

\* fetchAndPrepareM3U8: baseUrl = r.request?.res?.responseUrl || <requested URL>
baseUrlOf(fetch, requestUrl) == Or(fetch.responseUrl, requestUrl)

\* The GETs fetchAndPrepareM3U8 can have made of the URL "U": the text came
\* from "U" itself or, after redirects, from "R"; the http adapter reports
\* the final URL as responseUrl whenever it followed a redirect.
Fetches ==
  {[finalUrl |-> "U", responseUrl |-> Null],
   [finalUrl |-> "U", responseUrl |-> "U"],
   [finalUrl |-> "R", responseUrl |-> "R"]}

\* one pass of the loop of absolutizePlaylist over a line
absolutizeLine(ln, baseUrl) ==
  IF ln.kind \in {"key", "map"}
  THEN \* ln.replace(/URI="([^"]+)"/i, ...): only a line with a URI changes
       IF ln.uri = "none" THEN ln
       ELSE Line(ln.kind, resolveRelative(baseUrl, ln.uri))
  ELSE IF ln.kind \in {"tag", "endlist", "blank"}
  THEN \* ln.startsWith('#') || ln.trim() === ''
       ln
  ELSE IF ln.kind = "indentedEndlist"
  THEN \* does not start with #: resolved like a segment; a bare fragment
       \* resolves to the base URL with that fragment
       Line("uri", resolveRelative(baseUrl, "rel"))
  ELSE Line("uri", resolveRelative(baseUrl, ln.uri))

\* /^#EXT-X-ENDLIST/i.test(l)
isEndlist(ln) == ln.kind = "endlist"

\* mutant: the tag is pushed without looking for one
ensureEndlistAlways(out) == Append(out, Line("endlist", "none"))

\* if (!out.find(l => /^#EXT-X-ENDLIST/i.test(l))) out.push('#EXT-X-ENDLIST')
ensureEndlist(out) ==
  IF \E k \in 1..Len(out) : isEndlist(out[k]) THEN out
  ELSE Append(out, Line("endlist", "none"))

\* function absolutizePlaylist(text, baseUrl), on the lines of text
absolutizePlaylist(lines, baseUrl) ==
  ensureEndlist([k \in 1..Len(lines) |-> absolutizeLine(lines[k], baseUrl)])

\* text.split(/\r?\n/) yields at least one line
PlaylistTexts == {t \in SeqsUpTo(InputLines, MaxLines) : Len(t) >= 1}

InitAbs ==
  /\ BatchIdle
  /\ pickPc = "idle" /\ pickIn = << >> /\ pickOut = NoVariant
  /\ absPc = "ready" /\ absFetch \in Fetches
  /\ absIn \in PlaylistTexts /\ absOut = << >>

Absolutize ==
  /\ absPc = "ready"
  /\ absOut' = absolutizePlaylist(absIn, baseUrlOf(absFetch, "U"))
  /\ absPc' = "done"
  /\ UNCHANGED <<batchVars, pickPc, pickIn, pickOut, absFetch, absIn>>

NextAbs == Absolutize

SpecAbs == InitAbs /\ [][NextAbs]_vars

(* ------------------------------ claims -------------------------------- *)

Fulfilled == {i \in Tasks : taskPc[i] = "fulfilled"}
Failed == {i \in Tasks : thrown[i] # "none"}
UrlLess(variant) == variant.audioUrl = Null /\ variant.streamUrl = Null
BatchOver == handlerPc \in {"posting", "done"}

\* C1: every batch request that passed shape validation issues a callback
\* POST: a run of the handler that has ended, normally or by an exception,
\* has posted one.
C1_CallbackNeverSkipped ==
  (response = 202 /\ handlerPc \in {"done", "crashed"}) => Len(callbacks) >= 1

\* C2: a batch emits at most one callback; its mode is conversion-complete
\* exactly when at least one variant pipeline fulfilled and conversion-failed
\* exactly when none did.
C2_OneCallbackModeBySuccessCount ==
  /\ Len(callbacks) <= 1
  /\ \A k \in 1..Len(callbacks) :
       /\ callbacks[k].mode \in {"conversion-complete", "conversion-failed"}
       /\ callbacks[k].mode = "conversion-complete" <=> Cardinality(Fulfilled) >= 1
       /\ callbacks[k].mode = "conversion-failed" <=> Cardinality(Fulfilled) = 0

\* a batch with one success and one failure has reported conversion-complete
C2_Witness ==
  /\ handlerPc = "done"
  /\ Len(callbacks) = 1
  /\ callbacks[1].mode = "conversion-complete"
  /\ \E i \in Tasks : taskPc[i] = "rejected"

\* C3: isolation.  A variant is rejected only by an error of its own
\* pipeline, a variant whose pipeline threw nothing is fulfilled when the
\* batch is over, and a batch of N eligible variants of which exactly one
\* failed has N-1 fulfilled pipelines, reported (when N >= 2) as the N-1
\* finalItems of a conversion-complete callback.
C3_Isolation ==
  /\ \A i \in Tasks :
       taskPc[i] \in {"innerRejected", "rejected"} => thrown[i] # "none"
  /\ BatchOver =>
       /\ \A i \in Tasks : thrown[i] = "none" => taskPc[i] = "fulfilled"
       /\ ((\A i \in Tasks : ~UrlLess(normalized[i])) /\ Cardinality(Failed) = 1)
            => /\ Cardinality(Fulfilled) = Len(normalized) - 1
               /\ Len(normalized) >= 2 =>
                    /\ callbacks[1].mode = "conversion-complete"
                    /\ Len(callbacks[1].finalItems) = Len(normalized) - 1

\* two eligible variants, one failed at resolve, transcode or upload after
\* its sibling was started, and the batch reported the other one
C3_Witness ==
  /\ handlerPc = "done"
  /\ Len(normalized) >= 2
  /\ \A i \in Tasks : ~UrlLess(normalized[i])
  /\ Cardinality(Failed) = 1
  /\ \E i \in Tasks : thrown[i] \in {"ResolveError", "TranscodeError", "UploadError"}
  /\ Len(callbacks[1].finalItems) = Len(normalized) - 1

\* the tasks the limiter has started and that have not settled
Running == {i \in Tasks : taskPc[i] \notin {"queued", "fulfilled", "rejected"}}

\* C4: at every moment at most maxConcurrent variant pipelines are admitted
\* by the batch limiter and not yet settled.
C4_AtMostMaxConcurrentRunning == Cardinality(Running) <= maxConcurrent

\* both slots busy and a task waiting, after a task was rejected
C4_Witness ==
  /\ maxConcurrent = DefaultMaxConcurrent
  /\ Cardinality(Running) = maxConcurrent
  /\ Len(queue) >= 1
  /\ \E i \in Tasks : taskPc[i] = "rejected" /\ thrown[i] # "MissingUrls"

\* C5: the limiter starts tasks first-come-first-served: tasks are submitted
\* in list order, and a task that has started was submitted after every task
\* started before it and before every task still waiting.
C5_FirstComeFirstServed ==
  /\ \A k, l \in 1..Len(startOrder) : k < l => startOrder[k] < startOrder[l]
  /\ \A a, b \in Tasks : (a < b /\ taskPc[b] # "queued") => taskPc[a] # "queued"

\* one slot, two tasks had to wait and both have started, the first of them
\* after a rejection
C5_Witness ==
  /\ maxConcurrent = 1
  /\ Len(startOrder) >= 3
  /\ \E i \in Tasks : taskPc[i] = "rejected"

\* C6: for a variant whose normalized record has neither URL, no download,
\* playlist fetch, transcode or upload is ever issued.
C6_NoOperationForUrlLess ==
  \A i \in Tasks : UrlLess(normalized[i]) => ops[i] = NoOps

\* a URL-less variant has been through the limiter and was rejected
C6_Witness ==
  \E i \in Tasks : UrlLess(normalized[i]) /\ taskPc[i] = "rejected"

\* C7: a variant lacking both URLs is never submitted to the batch limiter:
\* it is never in the limiter's queue and never among the started tasks.
C7_UrlLessNeverSubmitted ==
  \A i \in Tasks :
    UrlLess(normalized[i]) => ~InSeq(i, queue) /\ ~InSeq(i, startOrder)

AllRawUrlLess ==
  \A k \in 1..Len(req.sunoVariants) :
    /\ ~req.sunoVariants[k].isNull
    /\ req.sunoVariants[k].audioUrl = Null
    /\ req.sunoVariants[k].streamUrl = Null

\* C8: a well-formed batch all of whose variants are records lacking both
\* URLs runs until it has posted exactly one callback, conversion-failed,
\* whose errs list is as long as the input list.
C8_AllUrlLessFailsWithAllErrs ==
  (ShapeOk(req) /\ AllRawUrlLess) =>
    /\ handlerPc = "done" \/ ENABLED Next
    /\ BatchOver =>
         /\ Len(callbacks) = 1
         /\ callbacks[1].mode = "conversion-failed"
         /\ callbacks[1].hasErrs
         /\ Len(callbacks[1].errs) = Len(req.sunoVariants)

\* a batch of two URL-less variants is over
C8_Witness ==
  /\ ShapeOk(req) /\ AllRawUrlLess
  /\ Len(req.sunoVariants) >= 2
  /\ handlerPc = "done"
  /\ Len(callbacks[1].errs) = Len(req.sunoVariants)

\* C9: rendition selection picks the element at 0-based position
\* floor((n-1)/2) of the candidates sorted by bandwidth ascending, the
\* lower-middle one when n is even: 200 of {100,200,300} and 200 of
\* {100,200,300,400}.
C9_PicksLowerMiddle ==
  (pickPc = "done" /\ Len(pickIn) > 0) =>
    pickOut.bandwidth =
      sortByBandwidth(pickIn)[((Len(pickIn) - 1) \div 2) + 1].bandwidth

CountEndlist(lines) == Cardinality({k \in 1..Len(lines) : lines[k].kind = "endlist"})

\* C10 as claimed: the absolutized playlist holds the end-of-list tag exactly
\* once, whatever the number of such tags in the input.
C10_EndlistExactlyOnce ==
  absPc = "done" => CountEndlist(absOut) = 1

\* C10 as amended: the absolutized playlist holds the end-of-list tag at
\* least once: exactly once when the input held none or one, and as many
\* times as the input when it held more.
C10_EndlistOnceUnlessRepeated ==
  absPc = "done" =>
    CountEndlist(absOut) = (IF CountEndlist(absIn) = 0 THEN 1 ELSE CountEndlist(absIn))

\* a playlist without the tag got one, behind a segment line
C10_Witness ==
  /\ absPc = "done"
  /\ CountEndlist(absIn) = 0
  /\ \E k \in 1..Len(absIn) : absIn[k].kind = "uri"
  /\ CountEndlist(absOut) = 1

\* an absolute URL under the URL the playlist was finally served from, or
\* one that was absolute in the input
AbsoluteOnFinal(uri) ==
  \/ uri = "abs"
  \/ uri = (IF absFetch.finalUrl = "U" THEN "U/rel" ELSE "R/rel")

\* the lines the loop treats as segment references
SegmentKinds == {"uri", "indentedEndlist"}

\* C11 as claimed: in the absolutized playlist every non-comment, non-blank
\* line is an absolute URL resolved against the post-redirect base URL, the
\* URI of every key and map line is absolute, and every other line is
\* copied unchanged.
C11_EveryReferenceAbsolute ==
  absPc = "done" =>
    \A k \in 1..Len(absIn) :
      IF absIn[k].kind \in SegmentKinds
      THEN absOut[k].kind = "uri" /\ AbsoluteOnFinal(absOut[k].uri)
      ELSE IF absIn[k].kind \in {"key", "map"} /\ absIn[k].uri # "none"
      THEN absOut[k].kind = absIn[k].kind /\ AbsoluteOnFinal(absOut[k].uri)
      ELSE absOut[k] = absIn[k]

\* C11 as amended: the same for every reference that parses as a URL; a
\* reference the URL parser rejects is copied as it is.
C11_EveryParsableReferenceAbsolute ==
  absPc = "done" =>
    \A k \in 1..Len(absIn) :
      IF absIn[k].kind \in SegmentKinds
      THEN /\ absOut[k].kind = "uri"
           /\ IF absIn[k].uri = "bad" THEN absOut[k].uri = "bad"
              ELSE AbsoluteOnFinal(absOut[k].uri)
      ELSE IF absIn[k].kind \in {"key", "map"} /\ absIn[k].uri # "none"
      THEN /\ absOut[k].kind = absIn[k].kind
           /\ IF absIn[k].uri = "bad" THEN absOut[k].uri = "bad"
              ELSE AbsoluteOnFinal(absOut[k].uri)
      ELSE absOut[k] = absIn[k]

\* a redirected playlist with a relative segment, a relative key URI and a
\* plain tag has been absolutized
C11_Witness ==
  /\ absPc = "done"
  /\ absFetch.finalUrl = "R"
  /\ \E k \in 1..Len(absIn) : absIn[k] = Line("uri", "rel") /\ absOut[k].uri = "R/rel"
  /\ \E k \in 1..Len(absIn) : absIn[k] = Line("key", "rel") /\ absOut[k].uri = "R/rel"
  /\ \E k \in 1..Len(absIn) : absIn[k] = Line("tag", "none")

\* processVariant has returned or thrown
PipelineReturned(i) ==
  taskPc[i] \in {"innerFulfilled", "innerRejected", "fulfilled", "rejected"}

\* C12 as claimed: once a variant's pipeline has returned, the working
\* directory it created no longer exists, whatever the outcome.
C12_DirectoryGoneAfterReturn ==
  \A i \in Tasks : PipelineReturned(i) => tempDir[i] # "exists"

\* C12 as amended: removal of the directory is attempted on every exit path
\* after its creation; once the pipeline has returned the directory is gone
\* unless the removal itself failed, and then the variant has failed with
\* the removal's error.
C12_DirectoryGoneUnlessRemovalFailed ==
  \A i \in Tasks :
    PipelineReturned(i) =>
      /\ tempDir[i] = "exists" => thrown[i] = "CleanupError"
      /\ thrown[i] \notin {"MissingUrls", "MkdtempError", "CleanupError"}
           => tempDir[i] = "removed"

\* a variant on the playlist path failed at its second transcode, its
\* directory was removed, and the batch is over
C12_Witness ==
  /\ handlerPc = "done"
  /\ \E i \in Tasks : /\ thrown[i] = "TranscodeError"
                       /\ attempts[i] = MaxHlsAttempts
                       /\ tempDir[i] = "removed"

\* a body the shape validation is meant to refuse: no batch id, no customer
\* identity, or a variant list that is absent, not a list, or empty
Malformed(body) ==
  \/ ~body.internalTaskId
  \/ ~body.customerId
  \/ ~body.isArray
  \/ Len(body.sunoVariants) = 0

\* C13: a malformed batch request never enters the pipeline: it is not
\* accepted, no variant is normalized or scheduled, and no callback is sent.
C13_MalformedNeverEnters ==
  Malformed(req) =>
    /\ response # 202
    /\ handlerPc \in {"idle", "rejected"}
    /\ Len(normalized) = 0
    /\ Len(taskPc) = 0
    /\ Len(callbacks) = 0

\* the handler is past the response: normalization, scheduling or any later
\* step has happened
ProcessingBegun ==
  \/ handlerPc \in {"awaitAll", "posting", "done", "crashed"}
  \/ Len(normalized) > 0
  \/ Len(taskPc) > 0

\* C14: for a valid batch request the 202 is sent before normalization or
\* any pipeline step begins, and once a response was sent on the request no
\* later step of the batch changes it or sends another.
C14_AckBeforeProcessingAndOnce ==
  /\ [](ProcessingBegun => response = 202)
  /\ []((ShapeOk(req) /\ handlerPc # "idle") => response = 202)
  /\ [][response # 0 => response' = response]_vars

\* a batch is over in which a variant failed and the callback POST failed,
\* and the request was answered 202
C14_Witness ==
  /\ handlerPc = "done"
  /\ response = 202
  /\ delivery = "failedLogged"
  /\ \E i \in Tasks : taskPc[i] = "rejected" /\ ops[i] # NoOps

\* C15: a failed callback delivery is swallowed: the handler ends normally,
\* the callback issued is still the one computed from the variants'
\* outcomes, which the failure left as they were, and it was issued once.
C15_CallbackFailureSwallowed ==
  delivery = "failedLogged" =>
    /\ handlerPc = "done"
    /\ AllSettled
    /\ Len(callbacks) = 1
    /\ callbacks[1] = callbackBody(taskPc)

\* the POST of a conversion-complete callback failed
C15_Witness ==
  /\ delivery = "failedLogged"
  /\ Len(callbacks) = 1
  /\ callbacks[1].mode = "conversion-complete"
  /\ Len(callbacks[1].finalItems) >= 1

\* the variant takes the playlist-source path
OnPlaylistPath(i) ==
  normalized[i].audioUrl = Null /\ normalized[i].streamUrl # Null

\* C16 as claimed: on the playlist-source path a variant runs the transcoder
\* at most twice, the second time only after a failed first attempt, and a
\* transcode error reaches the variant boundary only after the transcoder
\* failed twice.
C16_TranscodeRetriedOnce ==
  \A i \in Tasks :
    OnPlaylistPath(i) =>
      /\ ops[i].transcode <= MaxHlsAttempts
      /\ ops[i].transcode = 2 => attempts[i] >= 1
      /\ thrown[i] = "TranscodeError" => ops[i].transcode = 2

\* C16 as amended: what is retried once is the pass "resolve the playlist,
\* then transcode".  A variant makes at most two passes and runs the
\* transcoder at most once per pass; the second pass starts only from the
\* backoff, which is entered only by the first failure; a pass that
\* succeeds goes on to upload with no error pending; and a resolve or
\* transcode error reaches the variant boundary only when two passes failed.
C16_PassRetriedOnce ==
  /\ [](\A i \in Tasks :
          OnPlaylistPath(i) =>
            /\ attempts[i] <= MaxHlsAttempts
            /\ ops[i].transcode <= MaxHlsAttempts
            /\ ops[i].transcode <= attempts[i] + 1
            /\ taskPc[i] = "sleep" => attempts[i] = 1 /\ thrown[i] = "none"
            /\ taskPc[i] = "upload" => thrown[i] = "none"
            /\ thrown[i] \in {"ResolveError", "TranscodeError"}
                 => attempts[i] = MaxHlsAttempts)
  /\ [][\A i \in Tasks :
          /\ (taskPc[i] # "fetch1" /\ taskPc'[i] = "fetch1") =>
                \/ taskPc[i] = "mkdtemp" /\ attempts[i] = 0
                \/ taskPc[i] = "sleep" /\ attempts[i] = 1
          /\ (taskPc[i] # "sleep" /\ taskPc'[i] = "sleep") =>
                /\ taskPc[i] \in {"fetch1", "fetch2", "ffmpegHls"}
                /\ attempts[i] = 0 /\ attempts'[i] = 1]_vars

\* the first transcode failed, the second succeeded, and the variant's
\* result is in the callback
C16_Witness ==
  /\ handlerPc = "done"
  /\ \E i \in Tasks : /\ OnPlaylistPath(i)
                       /\ attempts[i] = 1
                       /\ ops[i].transcode = 2
                       /\ taskPc[i] = "fulfilled"

\* the variant takes the direct-audio path
OnDirectPath(i) == normalized[i].audioUrl # Null

\* C17: on the direct-audio path nothing is retried: a variant downloads at
\* most once and runs the transcoder at most once, never enters the backoff,
\* and the first failure of either step is the variant's failure: nothing
\* further is issued for it and it is rejected.
C17_DirectPathNotRetried ==
  \A i \in Tasks :
    OnDirectPath(i) =>
      /\ ops[i].download <= 1
      /\ ops[i].transcode <= 1
      /\ attempts[i] = 0
      /\ taskPc[i] # "sleep"
      /\ thrown[i] = "DownloadError" =>
           /\ ops[i] = [download |-> 1, fetch |-> 0, transcode |-> 0, upload |-> 0]
           /\ taskPc[i] \in {"rm", "innerRejected", "rejected"}
      /\ thrown[i] = "TranscodeError" =>
           /\ ops[i] = [download |-> 1, fetch |-> 0, transcode |-> 1, upload |-> 0]
           /\ taskPc[i] \in {"rm", "innerRejected", "rejected"}

\* one direct-audio variant was rejected for its download and another for
\* its transcode
C17_Witness ==
  /\ \E i \in Tasks : /\ OnDirectPath(i) /\ thrown[i] = "DownloadError"
                       /\ taskPc[i] = "rejected"
  /\ \E i \in Tasks : /\ OnDirectPath(i) /\ thrown[i] = "TranscodeError"
                       /\ taskPc[i] = "rejected"

\* the files of the observed variant whose upload failed or succeeded
FailedUploads == {f \in DOMAIN uploads.pc : uploads.pc[f] = "failed"}
DoneUploads == {f \in DOMAIN uploads.pc : uploads.pc[f] = "ok"}

\* C18: if the upload of any one file of a variant failed, the variant
\* fails: its pipeline never returns a result, its task is never fulfilled,
\* and the callback of the batch has no item for it, whatever became of its
\* other files.
C18_OneFailedUploadFailsVariant ==
  FailedUploads # {} =>
    /\ taskPc[1] \notin {"innerFulfilled", "fulfilled"}
    /\ taskPc[1] \in {"rm", "innerRejected", "rejected"} => thrown[1] = "UploadError"
    /\ \A k \in 1..Len(callbacks) :
         /\ callbacks[k].mode = "conversion-failed"
         /\ callbacks[k].finalItems = << >>

\* one file failed, the others were put, and the batch reported failure
C18_Witness ==
  /\ handlerPc = "done"
  /\ Cardinality(FailedUploads) = 1
  /\ Cardinality(DoneUploads) = Len(uploads.files) - 1
  /\ Len(uploads.files) >= 3
  /\ callbacks[1].mode = "conversion-failed"

\* C19: the normalized list has the length and the order of the input list,
\* and the index values of its records are pairwise distinct, also when raw
\* records carry their own index or id.
C19_NormalizedIndexUnique ==
  handlerPc = "awaitAll" =>
    /\ Len(normalized) = Len(req.sunoVariants)
    /\ \A k \in 1..Len(normalized) :
         normalized[k].audioUrl = req.sunoVariants[k].audioUrl
    /\ \A k, l \in 1..Len(normalized) :
         k # l => normalized[k].index # normalized[l].index

\* the items of a callback that carry the index of variant i
ItemsOf(body, i) ==
  {j \in 1..Len(body.finalItems) : body.finalItems[j].index = normalized[i].index}

\* C20: the finalItems of a conversion-complete callback hold exactly one
\* item for each variant whose pipeline fulfilled and none for a variant
\* that failed, in list order; such a callback carries no errs, and a
\* callback carries errs only when no variant fulfilled.
C20_FinalItemsAreTheSuccesses ==
  \A k \in 1..Len(callbacks) :
    /\ callbacks[k].mode = "conversion-complete" =>
         /\ callbacks[k].hasFinalItems
         /\ ~callbacks[k].hasErrs
         /\ Len(callbacks[k].finalItems) = Cardinality(Fulfilled)
         /\ \A i \in Tasks :
              Cardinality(ItemsOf(callbacks[k], i)) =
                (IF taskPc[i] = "fulfilled" THEN 1 ELSE 0)
         /\ \A j, l \in 1..Len(callbacks[k].finalItems) :
              j < l => callbacks[k].finalItems[j].index
                         < callbacks[k].finalItems[l].index
    /\ callbacks[k].hasErrs =>
         /\ Cardinality(Fulfilled) = 0
         /\ ~callbacks[k].hasFinalItems

\* the second of two variants fulfilled on the playlist path, the first
\* failed, and the callback holds the one item
C20_Witness ==
  /\ Len(callbacks) = 1
  /\ Len(normalized) = 2
  /\ taskPc[1] = "rejected" /\ thrown[1] # "MissingUrls"
  /\ taskPc[2] = "fulfilled" /\ OnPlaylistPath(2)
  /\ Len(callbacks[1].finalItems) = 1
  /\ callbacks[1].finalItems[1].index = 1

\* positions of a variant's task before its transcode has succeeded
BeforeTranscoded ==
  {"queued", "admitted", "mkdtemp", "download", "ffmpegMp3", "fetch1",
   "fetch2", "ffmpegHls", "sleep"}

\* C21: within the observed variant the steps are strictly sequential.  The
\* transcoder is started only by the step that ends the download or the
\* playlist resolution, and is not running while either is pending; the
\* upload is entered only by the step that ends a successful transcode, and
\* no file is mapped or read before that; the pipeline returns a result
\* only when every mapped file has been put.
C21_StepsStrictlySequential ==
  /\ [](Len(taskPc) >= 1 =>
          /\ taskPc[1] = "download" => ops[1].transcode = 0
          /\ taskPc[1] \in {"fetch1", "fetch2"} => ops[1].transcode <= attempts[1]
          /\ taskPc[1] \in BeforeTranscoded =>
               Len(uploads.files) = 0 /\ ops[1].upload = 0
          /\ Len(uploads.files) > 0 => ops[1].transcode >= 1
          /\ (taskPc[1] \in {"innerFulfilled", "fulfilled"}
                \/ (taskPc[1] = "rm" /\ thrown[1] = "none")) =>
               /\ Len(uploads.files) > 0
               /\ \A f \in DOMAIN uploads.pc : uploads.pc[f] = "ok")
  /\ [][Len(taskPc) >= 1 =>
          /\ ops'[1].transcode > ops[1].transcode =>
               /\ taskPc[1] \in {"download", "fetch1", "fetch2"}
               /\ taskPc'[1] \in {"ffmpegMp3", "ffmpegHls"}
          /\ (taskPc[1] # "upload" /\ taskPc'[1] = "upload") =>
               /\ taskPc[1] \in {"ffmpegMp3", "ffmpegHls"}
               /\ thrown'[1] = "none"]_vars

\* a playlist variant whose first transcode failed has returned its result
\* with all its files put, more of them than the upload limiter admits at
\* once
C21_Witness ==
  /\ Len(taskPc) >= 1
  /\ taskPc[1] = "fulfilled"
  /\ OnPlaylistPath(1)
  /\ ops[1].transcode = 2
  /\ Len(uploads.files) > UploadConcurrency
  /\ \A f \in DOMAIN uploads.pc : uploads.pc[f] = "ok"

\* C22 as claimed: one invocation of the resolver fetches at most twice:
\* once when the first response is not a master playlist, twice whenever it
\* is a master playlist, and never again after a failure.
C22_TwoFetchesForEveryMaster ==
  [][\A i \in Tasks, r \in FetchResponses :
       Fetch1Done(i, r) =>
         IF ~IsHlsContent(r)
         THEN ops'[i].fetch = 1 /\ taskPc'[i] \in {"sleep", "rm"}
         ELSE IF isMasterPlaylist(r)
         THEN ops'[i].fetch = 2 /\ taskPc'[i] = "fetch2"
         ELSE ops'[i].fetch = 1 /\ taskPc'[i] = "ffmpegHls"]_vars

\* C22 as amended: one invocation of the resolver fetches at most twice:
\* once when the first response is not a master playlist or is a master
\* playlist without rendition candidates, twice when it is a master
\* playlist with candidates, and never again after a failure; the count
\* starts anew with the invocation of the retry.
C22_TwoFetchesForMasterWithCandidates ==
  /\ [](\A i \in Tasks :
          /\ ops[i].fetch <= 2
          /\ taskPc[i] = "fetch1" => ops[i].fetch = 1
          /\ taskPc[i] = "fetch2" => ops[i].fetch = 2)
  /\ [][\A i \in Tasks, r \in FetchResponses :
          /\ Fetch1Done(i, r) =>
                IF ~IsHlsContent(r) \/ (isMasterPlaylist(r) /\ ~HasVariants(r))
                THEN ops'[i].fetch = 1 /\ taskPc'[i] \in {"sleep", "rm"}
                ELSE IF isMasterPlaylist(r)
                THEN ops'[i].fetch = 2 /\ taskPc'[i] = "fetch2"
                ELSE ops'[i].fetch = 1 /\ taskPc'[i] = "ffmpegHls"
          /\ Fetch2Done(i, r) =>
                /\ ops'[i].fetch = 2
                /\ taskPc'[i] \in {"ffmpegHls", "sleep", "rm"}
          /\ ops'[i].fetch # ops[i].fetch =>
                taskPc[i] \in {"mkdtemp", "sleep", "fetch1"}]_vars

\* the retry's invocation fetched a master playlist and its rendition and
\* went on to transcode
C22_Witness ==
  \E i \in Tasks :
    /\ taskPc[i] = "ffmpegHls"
    /\ attempts[i] = 1
    /\ ops[i].fetch = 2

\* C23: in a conversion-failed callback the entry of each failed variant
\* carries the index of that variant's normalized record, also when the raw
\* record supplied an index or id that is not its position.
C23_ErrsCarryVariantIndex ==
  \A k \in 1..Len(callbacks) :
    callbacks[k].mode = "conversion-failed" =>
      /\ Len(callbacks[k].errs) = Len(normalized)
      /\ \A j \in 1..Len(callbacks[k].errs) :
           callbacks[k].errs[j].index = normalized[j].index

\* what a failed resolution leaves behind: the pass has failed without the
\* transcoder being started, and the error is on its way out or the backoff
\* has begun
ResolutionFailed(i) ==
  /\ attempts'[i] = attempts[i] + 1
  /\ ops'[i] = ops[i]
  /\ \/ taskPc'[i] = "sleep" /\ attempts'[i] < MaxHlsAttempts
     \/ taskPc'[i] = "rm" /\ thrown'[i] = "ResolveError"
                          /\ attempts'[i] = MaxHlsAttempts

\* C24: resolution of a master playlist fails, and the transcoder is not
\* started in that pass, when the master yields no rendition candidate and
\* when the rendition fetched is not a media playlist.
C24_MasterResolutionFailures ==
  [][\A i \in Tasks :
       /\ Fetch1Done(i, "masterEmpty") => ResolutionFailed(i)
       /\ \A r \in {"notHls", "masterEmpty", "master", "bare"} :
            Fetch2Done(i, r) => ResolutionFailed(i)]_vars

\* a variant failed for good in a pass that fetched a master playlist and
\* its rendition and never started the transcoder
C24_Witness ==
  \E i \in Tasks :
    /\ taskPc[i] = "rejected"
    /\ thrown[i] = "ResolveError"
    /\ ops[i].fetch = 2
    /\ ops[i].transcode = 0

\* the files of the observed variant for which a put was issued
PutIssued ==
  {f \in DOMAIN uploads.pc : uploads.pc[f] \in {"putting", "innerOk", "ok"}}

\* C25: the objects put for a variant are its preview playlist demo.m3u8
\* and the segment files of the transcode, on either path: no put is
\* issued for another file of the working directory, and when all puts are
\* done exactly one of them is the playlist.
C25_OnlyPreviewArtifactsUploaded ==
  /\ \A f \in PutIssued : uploads.files[f].base \in {"demo", "segment"}
  /\ (Len(taskPc) >= 1 /\ taskPc[1] = "fulfilled") =>
       Cardinality({f \in DoneUploads : uploads.files[f].ext = "m3u8"}) = 1

\* the keys of the objects put so far for the observed variant
KeysPut == {putKey(normalized[1], uploads.files[f]) : f \in DoneUploads}

\* C26: the preview path of every item of finalItems is
\* previews/<taskId>-<index>/demo.m3u8 for the item's own index, and the
\* object of that key had been put for the variant when its pipeline
\* produced the result.
C26_PreviewPathWasPut ==
  /\ \A k \in 1..Len(callbacks) :
       \A j \in 1..Len(callbacks[k].finalItems) :
         LET item == callbacks[k].finalItems[j]
         IN  /\ item.index = normalized[1].index
             /\ item.previewR2Path =
                  [variantIndex |-> item.index, file |-> "demo.m3u8"]
             /\ item.previewR2Path \in KeysPut
  /\ (Len(taskPc) >= 1 /\ taskPc[1] \in {"innerFulfilled", "fulfilled"}) =>
       variantResult(normalized[1]).previewR2Path \in KeysPut

\* a playlist variant's result is in the callback and its demo.m3u8 was put
C26_Witness ==
  /\ Len(callbacks) = 1
  /\ Len(callbacks[1].finalItems) = 1
  /\ OnPlaylistPath(1)
  /\ callbacks[1].finalItems[1].previewR2Path \in KeysPut

\* the files of the observed variant whose limited task has been started and
\* whose slot has not been given back
InFlightUploads ==
  {f \in DOMAIN uploads.pc :
     uploads.pc[f] \in {"admitted", "reading", "putting", "innerOk", "innerFailed"}}

PendingUploads ==
  {f \in DOMAIN uploads.pc : uploads.pc[f] \notin {"ok", "failed"}}

\* C28: once the removal of a variant's working directory has been issued,
\* and so when the directory is gone and when the batch limiter's slot is
\* given back, no upload of the variant is queued or in flight.
C28_NoUploadPendingAtCleanup ==
  (Len(taskPc) >= 1
   /\ taskPc[1] \in {"rm", "innerFulfilled", "innerRejected",
                     "fulfilled", "rejected"}) =>
    PendingUploads = {}

\* the variants that have called uploadFilesToR2
Uploaders == {i \in Tasks : ops[i].upload > 0}

\* C29: two variants of a batch never put an object under the same key and
\* never report the same preview path, also when the raw records carry
\* their own index or id.
C29_SiblingsShareNoKeyAndNoPath ==
  /\ \A i \in Uploaders : \A j \in Uploaders \ {i} :
       putKey(normalized[i], File("demo", "m3u8", 0))
         # putKey(normalized[j], File("demo", "m3u8", 0))
  /\ \A k \in 1..Len(callbacks) :
       \A a \in 1..Len(callbacks[k].finalItems) :
         \A b \in 1..Len(callbacks[k].finalItems) :
           a # b => callbacks[k].finalItems[a].previewR2Path
                      # callbacks[k].finalItems[b].previewR2Path

\* variant i has a direct-audio URL and a stream URL
HasBothUrls(i) ==
  /\ normalized[i].audioUrl # Null
  /\ normalized[i].streamUrl # Null

\* C30: a variant with both URLs takes the direct-audio path: no playlist is
\* fetched and no pass of the playlist path is made for it, before or after
\* a failure of the direct-audio path, which is not repeated either; the
\* full-source URL of a result is the variant's direct-audio URL, null for
\* stream-only variants only.
C30_DirectAudioTakesPrecedence ==
  /\ \A i \in Tasks :
       HasBothUrls(i) =>
         /\ ops[i].fetch = 0
         /\ attempts[i] = 0
         /\ ops[i].download <= 1
         /\ taskPc[i] \notin {"fetch1", "fetch2", "ffmpegHls", "sleep"}
         /\ thrown[i] \in {"DownloadError", "TranscodeError"} =>
              taskPc[i] \in {"rm", "innerRejected", "rejected"}
  /\ \A k \in 1..Len(callbacks) :
       \A j \in 1..Len(callbacks[k].finalItems) :
         LET item    == callbacks[k].finalItems[j]
             variant == normalized[item.index + 1]
         IN  /\ item.fullUrl = variant.audioUrl
             /\ item.fullUrl = Null <=>
                  (variant.audioUrl = Null /\ variant.streamUrl # Null)

\* a variant with both URLs failed on its download and was rejected without
\* a playlist fetch, next to a both-URL variant whose result is in the callback
C30_Witness ==
  /\ Len(callbacks) = 1
  /\ \E i \in Tasks :
       /\ HasBothUrls(i)
       /\ taskPc[i] = "rejected"
       /\ thrown[i] = "DownloadError"
       /\ ops[i].fetch = 0
  /\ \E j \in 1..Len(callbacks[1].finalItems) :
       /\ HasBothUrls(callbacks[1].finalItems[j].index + 1)
       /\ callbacks[1].finalItems[j].fullUrl = "mp3"

\* the limiter's counter and queue agree with the tasks: active counts the
\* tasks started and not settled, the queue holds the tasks not started,
\* and a task waits only while every slot is taken
LimiterExact ==
  /\ active >= 0
  /\ active = Cardinality(Running)
  /\ \A i \in Tasks : taskPc[i] = "queued" <=> InSeq(i, queue)
  /\ Len(queue) > 0 => active = maxConcurrent

\* one step moves the counter by the tasks it starts less the task it
\* settles, settles at most one task, and never settles a task again
LimiterStep ==
  LET settledNow == {i \in Tasks : /\ taskPc[i] \notin SettledPcs
                                   /\ taskPc'[i] \in SettledPcs}
      startedNow == {i \in 1..Len(taskPc') :
                       /\ i \in Tasks => taskPc[i] = "queued"
                       /\ taskPc'[i] # "queued"}
  IN  /\ active' = active + Cardinality(startedNow) - Cardinality(settledNow)
      /\ Cardinality(settledNow) <= 1
      /\ \A i \in Tasks : taskPc[i] \in SettledPcs => taskPc'[i] = taskPc[i]
      /\ \A i \in settledNow :
           taskPc[i] \in {"innerFulfilled", "innerRejected"}

\* C31: the batch limiter's bookkeeping is exact and work-conserving: its
\* active counter is the number of tasks started and not settled, never
\* negative, and goes down once for each task that fulfils or rejects; a
\* task waits in the queue only while active equals the concurrency; and,
\* every started task settling in the end, every task that waits is
\* started in the end.
C31_LimiterExactAndLive ==
  /\ []LimiterExact
  /\ [][LimiterStep]_vars
  /\ \A i \in 1..MaxLimiterVariants :
       (i \in Tasks /\ taskPc[i] = "queued")
         ~> (i \in Tasks /\ taskPc[i] # "queued")

\* one slot, three tasks: the second was started by the rejection of the
\* first and has fulfilled, the third has been started after it
C31_Witness ==
  /\ maxConcurrent = 1
  /\ Len(taskPc) >= 3
  /\ taskPc[1] = "rejected"
  /\ taskPc[2] = "fulfilled"
  /\ taskPc[3] \notin {"queued", "fulfilled", "rejected"}
  /\ active = 1

====
